---- MODULE Spec2Model ----
(***************************************************************************)
(* Plastic SCM -> Git history migration (dandevs/ClosureAI).               *)
(*                                                                         *)
(* Two drivers replay the changesets of an exported history document into  *)
(* a Git repository:                                                       *)
(*   migrate_history  (src/migrate_plastic_to_git.py)  variant "full"      *)
(*   migrate          (src/migrate_simple.py)          variant "simple"    *)
(*                                                                         *)
(* Texts (branch paths, comments, ids, messages, file paths) are sequences *)
(* of one-character strings, so that lstrip/strip/replace/int are modelled *)
(* by what they do.  The destination repository (refs, HEAD, index,        *)
(* commits) and the shared working directory are part of the state; every  *)
(* external command has an exit code chosen by the environment.            *)
(***************************************************************************)
EXTENDS Integers, Sequences, FiniteSets, TLC

(***************************************************************************)
(* Bounds of the model.                                                    *)
(***************************************************************************)
MaxChangesets == 2   \* changesets in a multi-changeset history
MaxId         == 2   \* changeset ids are 1..MaxId
MaxChanges    == 2   \* file changes in the single-changeset histories
MaxFaults     == 1   \* spurious failures of external commands in a behaviour
MaxRuns       == 2   \* times the script is started on the same destination
MaxCommentLen == 2   \* characters of a comment in the text histories
MaxBranchLen  == 3   \* characters of a branch path in the text histories
MaxTypes      == 4   \* file changes of a changeset in the text histories

(***************************************************************************)
(* State.                                                                  *)
(***************************************************************************)
VARIABLES
    variant,          \* "full" (migrate_history) or "simple" (migrate)
    doc,              \* the history document on disk
    run,              \* how many times the script has been started
    pc,               \* position of the driver
    changesets,       \* the parsed, sorted changeset records
    idx,              \* 1-based position of the loop in changesets
    git_branches,     \* the driver's set of branch names
    current_branch,   \* the driver's idea of the checked-out branch
    success_count,    \* simple variant: commits that returned 0
    message,          \* full variant: message of the changeset in progress
    files_to_process, \* full variant: pending (action, path, cs_id) triples
    summary,          \* <<>> or <<the printed summary>>
    refs,             \* destination: branch name -> index of its head commit
    head,             \* destination: name of the checked-out branch
    index,            \* destination: staged tree (path -> content)
    commits,          \* destination: every commit object, in creation order
    wd,               \* working directory (path -> content)
    wd_before,        \* working directory when apply_changeset_files began
    log,              \* progress lines, commands and file operations so far
    faults            \* spurious command failures so far

vars == <<variant, doc, run, pc, changesets, idx, git_branches, current_branch,
          success_count, message, files_to_process, summary, refs, head, index,
          commits, wd, wd_before, log, faults>>

driverVars == <<changesets, idx, git_branches, current_branch, success_count,
                message, files_to_process, summary>>

gitVars == <<refs, head, index, commits>>

(***************************************************************************)
(* Texts.                                                                  *)
(***************************************************************************)
Whitespace == {" ", "\t", "\n"}

RECURSIVE LStrip(_, _)
\* str.lstrip(chars): drop every leading character that is in chars
LStrip(s, chars) ==
    IF s # <<>> /\ Head(s) \in chars THEN LStrip(Tail(s), chars) ELSE s

RECURSIVE RStrip(_, _)
RStrip(s, chars) ==
    IF s # <<>> /\ s[Len(s)] \in chars
    THEN RStrip(SubSeq(s, 1, Len(s) - 1), chars) ELSE s

\* str.strip()
Strip(s) == RStrip(LStrip(s, Whitespace), Whitespace)

RECURSIVE Replace(_, _, _)
\* str.replace(ch, rep) for a one-character ch
Replace(s, ch, rep) ==
    IF s = <<>> THEN <<>>
    ELSE (IF Head(s) = ch THEN rep ELSE <<Head(s)>>) \o Replace(Tail(s), ch, rep)

RECURSIVE Join(_, _)
\* sep.join(parts)
Join(parts, sep) ==
    IF parts = <<>> THEN <<>>
    ELSE IF Len(parts) = 1 THEN parts[1]
    ELSE parts[1] \o sep \o Join(Tail(parts), sep)

DigitChars == <<"0", "1", "2", "3", "4", "5", "6", "7", "8", "9">>

DigitSet == {DigitChars[i] : i \in 1..10}

DigitVal(c) == (CHOOSE i \in 1..10 : DigitChars[i] = c) - 1

RECURSIVE Digits(_)
\* str(n) for n >= 0
Digits(n) ==
    IF n < 10 THEN <<DigitChars[n + 1]>>
    ELSE Digits(n \div 10) \o <<DigitChars[(n % 10) + 1]>>

\* int(text) succeeds on a non-empty run of digits; an empty element has text
\* None (TypeError) and any other text raises ValueError
IsInt(t) == t # <<>> /\ \A i \in 1..Len(t) : t[i] \in DigitSet

RECURSIVE ParseInt(_)
ParseInt(t) ==
    IF t = <<>> THEN 0
    ELSE 10 * ParseInt(SubSeq(t, 1, Len(t) - 1)) + DigitVal(t[Len(t)])

(***************************************************************************)
(* The history document.  An element lists the child tags it has ("has");  *)
(* the text of an empty or absent child is <<>> (ElementTree gives None).  *)
(***************************************************************************)
AllTags == {"ChangesetId", "Branch", "Comment", "Owner", "Date", "Changes"}

BranchPaths == {<<"/", "m">>, <<"/", "m", "/", "f">>}

CommentTexts == {<<>>, <<"a">>}

FileP == <<"/", "p">>

FileQ == <<"/", "q">>

Item(type, src, dst) == [type |-> type, src_path |-> src, dst_path |-> dst]

\* changes to the one file of the multi-changeset histories
OneFileItems ==
    {Item(t, <<>>, FileP) : t \in {"Added", "Changed", "Deleted"}}

\* changes over two files, all four types
TwoFileItems ==
    {Item(t, <<>>, f) : t \in {"Added", "Changed", "Deleted"}, f \in {FileP, FileQ}}
    \cup {Item("Moved", FileP, FileQ), Item("Moved", FileQ, FileP)}

SeqsUpTo(S, n) == UNION {[1..k -> S] : k \in 0..n}

Elem(id, branch, comment, items) ==
    [has |-> AllTags, id |-> id, branch |-> branch, comment |-> comment,
     owner |-> <<"o">>, date |-> <<"d">>, items |-> items]

IdTexts == {Digits(n) : n \in 1..MaxId}

\* elements of the multi-changeset histories: at most one change, one file
DriverElems ==
    {Elem(id, b, c, its) : id \in IdTexts, b \in BranchPaths, c \in CommentTexts,
                           its \in SeqsUpTo(OneFileItems, 1)}

UniqueIds(es) == \A i, j \in 1..Len(es) : i # j => es[i].id # es[j].id

\* histories of up to MaxChangesets changesets, in any document order
DriverDocs ==
    {[wellformed |-> TRUE, elems |-> es] :
        es \in {s \in SeqsUpTo(DriverElems, MaxChangesets) : UniqueIds(s)}}

\* histories of one changeset with up to MaxChanges changes over two files
ReconcilerDocs ==
    {[wellformed |-> TRUE, elems |-> <<Elem(<<"1">>, <<"/", "m">>, <<>>, its)>>] :
        its \in SeqsUpTo(TwoFileItems, MaxChanges)}

\* a sound first changeset followed by a second one with a defect
GoodElem == Elem(<<"1">>, <<"/", "m">>, <<"a">>, <<Item("Added", <<>>, FileP)>>)

SecondElem == Elem(<<"2">>, <<"/", "m">>, <<>>, <<>>)

DefectElems ==
    {[SecondElem EXCEPT !.has = AllTags \ {t}] : t \in AllTags}
    \cup {[SecondElem EXCEPT !.id = <<>>], [SecondElem EXCEPT !.id = <<"x">>],
          [SecondElem EXCEPT !.branch = <<>>], [SecondElem EXCEPT !.date = <<>>]}

DefectDocs ==
    {[wellformed |-> TRUE, elems |-> <<GoodElem, d>>] : d \in DefectElems}
    \cup {[wellformed |-> TRUE, elems |-> <<d, GoodElem>>] : d \in DefectElems}
    \cup {[wellformed |-> FALSE, elems |-> <<GoodElem>>]}

Docs == DriverDocs \cup ReconcilerDocs \cup DefectDocs

\* text histories: one changeset (id 12) whose comment, change types or branch
\* path range over all short texts
TextElem(branch, comment, items) == Elem(<<"1", "2">>, branch, comment, items)

CommentDocs ==
    {[wellformed |-> TRUE, elems |-> <<TextElem(<<"/", "m">>, c, its)>>] :
        c \in SeqsUpTo({" ", "a"}, MaxCommentLen),
        its \in {<<>>, <<Item("Added", <<>>, FileP)>>}}

TypeItems ==
    {Item(t, <<>>, FileP) : t \in {"Added", "Changed", "Deleted"}}
    \cup {Item("Moved", FileP, FileQ)}

TypeDocs ==
    {[wellformed |-> TRUE, elems |-> <<TextElem(<<"/", "m">>, c, its)>>] :
        c \in {<<>>, <<" ">>}, its \in SeqsUpTo(TypeItems, MaxTypes)}

BranchDocs ==
    {[wellformed |-> TRUE, elems |-> <<TextElem(b, <<"a">>, <<>>)>>] :
        b \in SeqsUpTo({"/", "a", "-"}, MaxBranchLen) \ {<<>>}}

TextDocs == CommentDocs \cup TypeDocs \cup BranchDocs

(***************************************************************************)
(* History Reader.                                                         *)
(***************************************************************************)
RECURSIVE InsertById(_, _)
\* stable insertion of c into a list sorted by id
InsertById(c, sorted) ==
    IF sorted = <<>> THEN <<c>>
    ELSE IF c.id < Head(sorted).id THEN <<c>> \o sorted
    ELSE <<Head(sorted)>> \o InsertById(c, Tail(sorted))

\* the sort left out: document order
SortByIdMutant(cs) == cs

RECURSIVE SortById(_)
\* list.sort(key=id) / sorted(..., key=id): stable, ascending
SortById(cs) ==
    IF cs = <<>> THEN <<>>
    ELSE InsertById(cs[Len(cs)], SortById(SubSeq(cs, 1, Len(cs) - 1)))

\* parse_xml_history raises: ET.parse on a malformed document, .text of an
\* absent child (AttributeError), int() of an empty or non-numeric id
parse_xml_history_raises(d) ==
    \/ ~d.wellformed
    \/ \E k \in 1..Len(d.elems) :
          \/ ~(AllTags \subseteq d.elems[k].has)
          \/ ~IsInt(d.elems[k].id)

ChangesetOfElem(e) ==
    [id |-> ParseInt(e.id), branch |-> e.branch, comment |-> e.comment,
     owner |-> e.owner, date_str |-> e.date, changes |-> e.items]

\* a reader that resumes: changesets the destination already holds are dropped
parse_xml_history_resume(d) ==
    SelectSeq(SortById([k \in 1..Len(d.elems) |-> ChangesetOfElem(d.elems[k])]),
              LAMBDA c : \A n \in 1..Len(commits) : commits[n].cs # c.id)

parse_xml_history(d) ==
    SortById([k \in 1..Len(d.elems) |-> ChangesetOfElem(d.elems[k])])

(***************************************************************************)
(* Message Synthesizer.                                                    *)
(***************************************************************************)
Count(items, type) == Cardinality({k \in 1..Len(items) : items[k].type = type})

FilesSuffix == <<" ", "f", "i", "l", "e", "(", "s", ")">>

Part(verb, n) == verb \o <<" ">> \o Digits(n) \o FilesSuffix

VerbOf(type) ==
    CASE type = "Added"   -> <<"A", "d", "d">>
      [] type = "Changed" -> <<"U", "p", "d", "a", "t", "e">>
      [] type = "Deleted" -> <<"D", "e", "l", "e", "t", "e">>
      [] type = "Moved"   -> <<"M", "o", "v", "e">>

\* the Deleted part appended before the Changed part
TypeOrderMutant == <<"Added", "Deleted", "Changed", "Moved">>

TypeOrder == <<"Added", "Changed", "Deleted", "Moved">>

\* the parts list: one part per type with a non-zero count, in TypeOrder
Parts(items) ==
    LET present == SelectSeq(TypeOrder, LAMBDA t : Count(items, t) > 0)
    IN  [k \in 1..Len(present) |-> Part(VerbOf(present[k]), Count(items, present[k]))]

\* f"Update (changeset {id})"
FallbackMessage(id) ==
    <<"U", "p", "d", "a", "t", "e", " ", "(", "c", "h", "a", "n", "g", "e",
      "s", "e", "t", " ">> \o Digits(id) \o <<")">>

generate_commit_message(cs) ==
    IF Strip(cs.comment) # <<>> THEN cs.comment
    ELSE IF cs.changes = <<>> THEN FallbackMessage(cs.id)
    ELSE Join(Parts(cs.changes), <<",", " ">>)

\* parse_history (simple variant): the Changes section is optional, the
\* Owner is not read, the comment is stripped and the message is fixed here
parse_history_raises(d) ==
    \/ ~d.wellformed
    \/ \E k \in 1..Len(d.elems) :
          \/ ~({"ChangesetId", "Branch", "Comment", "Date"} \subseteq d.elems[k].has)
          \/ ~IsInt(d.elems[k].id)

SimpleChangesetOfElem(e) ==
    LET items   == IF "Changes" \in e.has THEN e.items ELSE <<>>
        comment == Strip(e.comment)
        parts   == Parts(items)
    IN  [id |-> ParseInt(e.id), branch |-> e.branch,
         comment |-> IF comment # <<>> THEN comment
                     ELSE IF parts # <<>> THEN Join(parts, <<",", " ">>)
                     ELSE FallbackMessage(ParseInt(e.id)),
         date |-> e.date]

parse_history(d) ==
    SortById([k \in 1..Len(d.elems) |-> SimpleChangesetOfElem(d.elems[k])])

(***************************************************************************)
(* Branch name mapping.                                                    *)
(***************************************************************************)
\* branch.lstrip('/').replace('/', '-')
BranchMap(b) == Replace(LStrip(b, {"/"}), "/", <<"-">>)

\* message.replace('"', '\\"').replace('$', '\\$')
EscapeFull(m) == Replace(Replace(m, "\"", <<"\\", "\"">>), "$", <<"\\", "$">>)

\* cs['comment'].replace('"', '\\"').replace("'", "'\\''")
EscapeSimple(m) ==
    Replace(Replace(m, "\"", <<"\\", "\"">>), "'", <<"'", "\\", "'", "'">>)

(***************************************************************************)
(* Initial state and helpers of the state.                                 *)
(***************************************************************************)
NoBranch == <<"<None>">>       \* current_branch = None

InitialHead == <<"m", "a", "s", "t", "e", "r">>

\* trees are functions from the paths present to their content
Lookup(tree, p) == IF p \in DOMAIN tree THEN <<tree[p]>> ELSE <<>>

Put(tree, p, c) == [x \in DOMAIN tree \cup {p} |-> IF x = p THEN c ELSE tree[x]]

Remove(tree, p) == [x \in DOMAIN tree \ {p} |-> tree[x]]

EmptyTree == <<>>

\* os.path.join(WORK_DIR, path.lstrip('/')): the file a source path names
FullPath(path) == LStrip(path, {"/"})

\* stdout of `cm cat path --rev=cs:id`: the content of path as of changeset id
Retrieved(path, id) == [path |-> path, rev |-> id]

Entry(cmd, id, arg, ok) ==
    [run |-> run, cmd |-> cmd, cs |-> id, arg |-> arg, ok |-> ok]

\* an exit code the environment may give: success only where the command can
\* succeed; a failure is either forced or one of the MaxFaults spurious ones
MayReturn(ok, canSucceed, spent) ==
    IF ok THEN canSucceed ELSE (~canSucceed \/ faults + spent < MaxFaults)

Fault(ok, canSucceed) == IF ~ok /\ canSucceed THEN 1 ELSE 0

InitFrom(docs, spent) ==
    /\ variant \in {"full", "simple"}
    /\ doc \in docs
    /\ run = 1
    /\ pc = "start"
    /\ changesets = <<>>
    /\ idx = 1
    /\ git_branches = {}
    /\ current_branch = NoBranch
    /\ success_count = 0
    /\ message = <<>>
    /\ files_to_process = <<>>
    /\ summary = <<>>
    /\ refs = EmptyTree
    /\ head = InitialHead
    /\ index = EmptyTree
    /\ commits = <<>>
    /\ wd = EmptyTree
    /\ wd_before = EmptyTree
    /\ log = <<>>
    /\ faults = spent

Init == InitFrom(Docs, 0)

\* the text histories, migrated with no spurious command failure
InitText == InitFrom(TextDocs, MaxFaults)

(***************************************************************************)
(* Destination repository: what the git commands do.                       *)
(***************************************************************************)
TreeOf(b) == IF b \in DOMAIN refs THEN commits[refs[b]].tree ELSE EmptyTree

\* paths whose committed content differs between HEAD and branch b
Differ(b) ==
    {p \in DOMAIN TreeOf(head) \cup DOMAIN TreeOf(b) :
        Lookup(TreeOf(head), p) # Lookup(TreeOf(b), p)}

\* `git checkout b` refuses to overwrite local changes to a path it must update
CanSwitch(b) ==
    /\ b \in DOMAIN refs
    /\ \A p \in Differ(b) : /\ Lookup(wd, p) = Lookup(TreeOf(head), p)
                            /\ Lookup(index, p) = Lookup(TreeOf(head), p)

\* a tree (index or working directory) after a successful `git checkout b`
Switched(tree, b) ==
    [p \in (DOMAIN tree \ Differ(b)) \cup (Differ(b) \cap DOMAIN TreeOf(b)) |->
        IF p \in Differ(b) THEN TreeOf(b)[p] ELSE tree[p]]

\* the repository after `git checkout -b b` (ok) from the current HEAD
AfterCreate(b) ==
    [head |-> b,
     refs |-> IF head \in DOMAIN refs THEN Put(refs, b, refs[head]) ELSE refs,
     index |-> index, wd |-> wd]

AfterSwitch(b) ==
    [head |-> b, refs |-> refs, index |-> Switched(index, b), wd |-> Switched(wd, b)]

Unmoved == [head |-> head, refs |-> refs, index |-> index, wd |-> wd]

\* git refuses an empty branch name and takes a leading "-" for an option
ValidName(b) == b # <<>> /\ Head(b) # "-"

\* the existence check, false whatever the exit code
CreateWhenMutant(chk) == FALSE

\* `if code != 0:` -- create when the check fails, else switch
CreateWhen(chk) == ~chk

\* check existence with rev-parse, then `checkout -b` or `checkout`; both exit
\* codes of the checkout are ignored.  lg is the log so far.
GetOrCreate(git_branch, id, lg) ==
    \E chk, co \in BOOLEAN :
        LET exists == git_branch \in DOMAIN refs
            create == CreateWhen(chk)
            can    == IF create THEN ~exists /\ ValidName(git_branch)
                      ELSE CanSwitch(git_branch)
            after  == IF ~co THEN Unmoved
                      ELSE IF create THEN AfterCreate(git_branch)
                      ELSE AfterSwitch(git_branch)
        IN  /\ MayReturn(chk, exists, 0)
            /\ MayReturn(co, can, Fault(chk, exists))
            /\ faults' = faults + Fault(chk, exists) + Fault(co, can)
            /\ head' = after.head
            /\ refs' = after.refs
            /\ index' = after.index
            /\ wd' = after.wd
            /\ log' = lg \o <<Entry("rev-parse", id, git_branch, chk),
                             Entry(IF create THEN "checkout-b" ELSE "checkout",
                                   id, git_branch, co)>>

\* get_or_create_branch(branch_name): maps the name it is given once more
get_or_create_branch(branch_name, id, lg) ==
    GetOrCreate(BranchMap(branch_name), id, lg)

\* the commit command without its --allow-empty flag
AllowEmptyMutant == FALSE

\* both commit commands carry --allow-empty
AllowEmpty == TRUE

\* git add -A; git commit --allow-empty --date=... -m msg.  A commit with no
\* usable date (an empty Date element gives --date="None") is refused, and so
\* is, without --allow-empty, one that changes nothing.
\* the stage-all left out: only what is already in the index is committed
StagedMutant(addOk) == index

\* `git add -A`: the index becomes the whole working directory
Staged(addOk) == IF addOk THEN wd ELSE index

GitAddCommit(id, msg, date, addOk, commitOk) ==
    LET staged == Staged(addOk)
        can    == date # <<>> /\ (AllowEmpty \/ staged # TreeOf(head))
        new    == [parent |-> IF head \in DOMAIN refs THEN refs[head] ELSE 0,
                   tree |-> staged, message |-> msg, date |-> date,
                   branch |-> head, cs |-> id, run |-> run]
    IN  /\ MayReturn(addOk, TRUE, 0)
        /\ MayReturn(commitOk, can, Fault(addOk, TRUE))
        /\ faults' = faults + Fault(addOk, TRUE) + Fault(commitOk, can)
        /\ index' = staged
        /\ commits' = IF commitOk THEN Append(commits, new) ELSE commits
        /\ refs' = IF commitOk THEN Put(refs, head, Len(commits) + 1) ELSE refs
        /\ log' = log \o <<Entry("git-add", id, <<>>, addOk),
                          Entry("git-commit", id, msg, commitOk)>>
        /\ UNCHANGED <<head, wd>>

(***************************************************************************)
(* Driver, full variant: migrate_history.                                  *)
(***************************************************************************)
Cur == changesets[idx]

InLoop == pc = "loop" /\ idx <= Len(changesets)

\* main() catches the exception, prints it and exits with status 1
Abort ==
    /\ pc' = "aborted"
    /\ UNCHANGED <<changesets, idx, git_branches, current_branch, success_count,
                   message, files_to_process, summary, gitVars, wd, wd_before,
                   log, faults>>

\* parse the document; the "Found ... changesets" line indexes changesets[0]
ParseXmlHistory ==
    /\ pc = "start"
    /\ variant = "full"
    /\ IF parse_xml_history_raises(doc) \/ doc.elems = <<>>
       THEN Abort
       ELSE /\ changesets' = parse_xml_history(doc)
            /\ pc' = "loop"
            /\ UNCHANGED <<idx, git_branches, current_branch, success_count,
                           message, files_to_process, summary, gitVars, wd,
                           wd_before, log, faults>>
    /\ UNCHANGED <<variant, doc, run>>

\* the guard of the branch step left out: the branch step always runs
NeedsBranchStepMutant(git_branch) == TRUE

\* `if git_branch != current_branch:`
NeedsBranchStep(git_branch) == git_branch # current_branch

\* top of the loop body: progress line, then switch or create the branch
BranchStep ==
    /\ InLoop
    /\ variant = "full"
    /\ IF Cur.branch = <<>>
       THEN Abort      \* cs['branch'][:40] on None
       ELSE LET git_branch == BranchMap(Cur.branch)
                lg == Append(log, Entry("progress", Cur.id, Cur.branch, TRUE))
            IN  /\ IF NeedsBranchStep(git_branch)
                   THEN /\ get_or_create_branch(git_branch, Cur.id, lg)
                        /\ current_branch' = git_branch
                        /\ git_branches' = git_branches \cup {git_branch}
                   ELSE /\ log' = lg
                        /\ UNCHANGED <<current_branch, git_branches, head, refs,
                                       index, wd, faults>>
                /\ pc' = "apply"
                /\ UNCHANGED <<changesets, idx, success_count, message,
                               files_to_process, summary, commits, wd_before>>
    /\ UNCHANGED <<variant, doc, run>>

\* a move written before its source is deleted
ExpandMutant(change, id) ==
    IF change.type \in {"Added", "Changed"}
    THEN <<[action |-> "add_or_update", path |-> change.dst_path, cs_id |-> id]>>
    ELSE IF change.type = "Deleted"
    THEN <<[action |-> "delete", path |-> change.dst_path, cs_id |-> id]>>
    ELSE IF change.type = "Moved"
    THEN <<[action |-> "add_or_update", path |-> change.dst_path, cs_id |-> id],
           [action |-> "delete", path |-> change.src_path, cs_id |-> id]>>
    ELSE <<>>

\* the (action, path, changeset id) triples of one change
Expand(change, id) ==
    IF change.type \in {"Added", "Changed"}
    THEN <<[action |-> "add_or_update", path |-> change.dst_path, cs_id |-> id]>>
    ELSE IF change.type = "Deleted"
    THEN <<[action |-> "delete", path |-> change.dst_path, cs_id |-> id]>>
    ELSE IF change.type = "Moved"
    THEN <<[action |-> "delete", path |-> change.src_path, cs_id |-> id],
           [action |-> "add_or_update", path |-> change.dst_path, cs_id |-> id]>>
    ELSE <<>>

RECURSIVE InListOrder(_, _)
InListOrder(changes, id) ==
    IF changes = <<>> THEN <<>>
    ELSE Expand(Head(changes), id) \o InListOrder(Tail(changes), id)

\* the deletions batched ahead of the writes
FilesToProcessMutant(changes, id) ==
    SelectSeq(InListOrder(changes, id), LAMBDA f : f.action = "delete")
    \o SelectSeq(InListOrder(changes, id), LAMBDA f : f.action = "add_or_update")

RECURSIVE FilesToProcess(_, _)
\* the first loop of apply_changeset_files
FilesToProcess(changes, id) ==
    IF changes = <<>> THEN <<>>
    ELSE Expand(Head(changes), id) \o FilesToProcess(Tail(changes), id)

\* generate the message and build the list of file operations
PrepareChangeset ==
    /\ pc = "apply"
    /\ message' = generate_commit_message(Cur)
    /\ files_to_process' = FilesToProcess(Cur.changes, Cur.id)
    /\ wd_before' = wd
    /\ pc' = "files"
    /\ UNCHANGED <<variant, doc, run, changesets, idx, git_branches,
                   current_branch, success_count, summary, gitVars, wd, log, faults>>

\* the file written whatever cm cat returned
WrittenMutant(f, ok) == Put(wd, FullPath(f.path), Retrieved(f.path, f.cs_id))

\* `if code == 0:` write the retrieved content, else only warn
Written(f, ok) ==
    IF ok THEN Put(wd, FullPath(f.path), Retrieved(f.path, f.cs_id)) ELSE wd

\* one add_or_update triple: cm cat, then write the file if it returned 0
FileAddOrUpdate ==
    /\ pc = "files"
    /\ files_to_process # <<>>
    /\ Head(files_to_process).action = "add_or_update"
    /\ LET f == Head(files_to_process)
       IN  \E ok \in BOOLEAN :
              /\ MayReturn(ok, TRUE, 0)
              /\ faults' = faults + Fault(ok, TRUE)
              /\ wd' = Written(f, ok)
              /\ log' = log \o <<Entry("cm-cat", f.cs_id, f.path, ok),
                                Entry(IF ok THEN "write" ELSE "warning",
                                      f.cs_id, f.path, ok)>>
    /\ files_to_process' = Tail(files_to_process)
    /\ UNCHANGED <<variant, doc, run, pc, changesets, idx, git_branches,
                   current_branch, success_count, message, summary, gitVars,
                   wd_before>>

\* one delete triple: remove the file if it exists, then git rm
FileDelete ==
    /\ pc = "files"
    /\ files_to_process # <<>>
    /\ Head(files_to_process).action = "delete"
    /\ LET f == Head(files_to_process)
           full_path == FullPath(f.path)
       IN  IF full_path \in DOMAIN wd
           THEN \E ok \in BOOLEAN :
                   /\ MayReturn(ok, full_path \in DOMAIN index, 0)
                   /\ faults' = faults + Fault(ok, full_path \in DOMAIN index)
                   /\ wd' = Remove(wd, full_path)
                   /\ index' = IF ok THEN Remove(index, full_path) ELSE index
                   /\ log' = log \o <<Entry("remove", f.cs_id, f.path, TRUE),
                                     Entry("git-rm", f.cs_id, f.path, ok)>>
           ELSE UNCHANGED <<wd, index, log, faults>>
    /\ files_to_process' = Tail(files_to_process)
    /\ UNCHANGED <<variant, doc, run, pc, changesets, idx, git_branches,
                   current_branch, success_count, message, summary, refs, head,
                   commits, wd_before>>

\* create_git_commit and the result glyph; then the next changeset
CreateGitCommit ==
    /\ pc = "files"
    /\ files_to_process = <<>>
    /\ \E addOk, commitOk \in BOOLEAN :
          GitAddCommit(Cur.id, EscapeFull(message), Cur.date_str, addOk, commitOk)
    /\ idx' = idx + 1
    /\ pc' = "loop"
    /\ UNCHANGED <<variant, doc, run, changesets, git_branches, current_branch,
                   success_count, message, files_to_process, summary, wd_before>>

\* the "commits created" figure the full variant prints
ReportedCommits == Len(changesets)

\* the final block of migrate_history, and `git branch -a`
Summary ==
    /\ pc = "loop"
    /\ idx > Len(changesets)
    /\ variant = "full"
    /\ summary' = <<[commits |-> ReportedCommits,
                     branches |-> Cardinality(git_branches)]>>
    /\ log' = Append(log, Entry("git-branch-a", 0, <<>>, TRUE))
    /\ pc' = "done"
    /\ UNCHANGED <<variant, doc, run, changesets, idx, git_branches,
                   current_branch, success_count, message, files_to_process,
                   gitVars, wd, wd_before, faults>>

(***************************************************************************)
(* Driver, simple variant: migrate.                                        *)
(***************************************************************************)
\* an uncaught exception ends the script; both empty and sound lists go on
ParseHistory ==
    /\ pc = "start"
    /\ variant = "simple"
    /\ IF parse_history_raises(doc)
       THEN Abort
       ELSE /\ changesets' = parse_history(doc)
            /\ pc' = "loop"
            /\ UNCHANGED <<idx, git_branches, current_branch, success_count,
                           message, files_to_process, summary, gitVars, wd,
                           wd_before, log, faults>>
    /\ UNCHANGED <<variant, doc, run>>

WorkspaceFiles == {FullPath(FileP), FullPath(FileQ)}

\* the working directory after `cm switch cs:id`: the source tree as of id
PlasticTree(id) == [p \in WorkspaceFiles |-> Retrieved(<<"/">> \o p, id)]

\* a failed switch not skipping the changeset
SkipsChangesetMutant(code_ok) == FALSE

\* `if code != 0: ... continue`
SkipsChangeset(code_ok) == ~code_ok

\* progress line and `cm switch`; a failed switch skips the changeset
CmSwitch ==
    /\ InLoop
    /\ variant = "simple"
    /\ \E ok \in BOOLEAN :
          /\ MayReturn(ok, TRUE, 0)
          /\ faults' = faults + Fault(ok, TRUE)
          /\ wd' = IF ok THEN PlasticTree(Cur.id) ELSE wd
          /\ log' = log \o <<Entry("progress", Cur.id, <<>>, TRUE),
                            Entry("cm-switch", Cur.id, <<>>, ok)>>
          /\ pc' = IF SkipsChangeset(ok) THEN "loop" ELSE "branch"
          /\ idx' = IF SkipsChangeset(ok) THEN idx + 1 ELSE idx
    /\ UNCHANGED <<variant, doc, run, changesets, git_branches, current_branch,
                   success_count, message, files_to_process, summary, gitVars,
                   wd_before>>

\* lines 83-93: determine, then create or switch the branch
BranchStepSimple ==
    /\ pc = "branch"
    /\ IF Cur.branch = <<>>
       THEN Abort      \* None.lstrip
       ELSE LET git_branch == BranchMap(Cur.branch)
            IN  /\ IF NeedsBranchStep(git_branch)
                   THEN /\ GetOrCreate(git_branch, Cur.id, log)
                        /\ current_branch' = git_branch
                        /\ git_branches' = git_branches \cup {git_branch}
                   ELSE UNCHANGED <<current_branch, git_branches, head, refs,
                                    index, wd, faults, log>>
                /\ pc' = "commit"
                /\ UNCHANGED <<changesets, idx, success_count, message,
                               files_to_process, summary, commits, wd_before>>
    /\ UNCHANGED <<variant, doc, run>>

\* `if code == 0: success_count += 1`
Counted(commitOk) == IF commitOk THEN 1 ELSE 0

\* lines 95-107: stage everything, commit, count a success
CommitSimple ==
    /\ pc = "commit"
    /\ \E addOk, commitOk \in BOOLEAN :
          /\ GitAddCommit(Cur.id, EscapeSimple(Cur.comment), Cur.date, addOk, commitOk)
          /\ success_count' = success_count + Counted(commitOk)
    /\ idx' = idx + 1
    /\ pc' = "loop"
    /\ UNCHANGED <<variant, doc, run, changesets, git_branches, current_branch,
                   message, files_to_process, summary, wd_before>>

SummarySimple ==
    /\ pc = "loop"
    /\ idx > Len(changesets)
    /\ variant = "simple"
    /\ summary' = <<[commits |-> success_count, total |-> Len(changesets),
                     branches |-> git_branches]>>
    /\ pc' = "done"
    /\ UNCHANGED <<variant, doc, run, changesets, idx, git_branches,
                   current_branch, success_count, message, files_to_process,
                   gitVars, wd, wd_before, log, faults>>

(***************************************************************************)
(* The script is started again on the same document and destination: the   *)
(* repository, the working directory and the log of what happened stay,    *)
(* the process state is new.                                               *)
(***************************************************************************)
Rerun ==
    /\ pc \in {"done", "aborted"}
    /\ run < MaxRuns
    /\ run' = run + 1
    /\ pc' = "start"
    /\ changesets' = <<>>
    /\ idx' = 1
    /\ git_branches' = {}
    /\ current_branch' = NoBranch
    /\ success_count' = 0
    /\ message' = <<>>
    /\ files_to_process' = <<>>
    /\ summary' = <<>>
    /\ UNCHANGED <<variant, doc, gitVars, wd, wd_before, log, faults>>

Next ==
    \/ ParseXmlHistory
    \/ BranchStep
    \/ PrepareChangeset
    \/ FileAddOrUpdate
    \/ FileDelete
    \/ CreateGitCommit
    \/ Summary
    \/ ParseHistory
    \/ CmSwitch
    \/ BranchStepSimple
    \/ CommitSimple
    \/ SummarySimple
    \/ Rerun

Spec == Init /\ [][Next]_vars

SpecText == InitText /\ [][Next]_vars

TypeOK ==
    /\ variant \in {"full", "simple"}
    /\ pc \in {"start", "loop", "apply", "files", "branch", "commit", "done", "aborted"}
    /\ run \in 1..MaxRuns
    /\ faults \in 0..MaxFaults
    /\ idx \in 1..(Len(changesets) + 1)
    /\ \A b \in DOMAIN refs : refs[b] \in 1..Len(commits)
    /\ \A n \in 1..Len(commits) : commits[n].parent \in 0..(n - 1)

(***************************************************************************)
(* Properties.                                                             *)
(***************************************************************************)
LogIdx == 1..Len(log)

\* log positions of command cmd issued for changeset id in execution r
Issued(cmd, id, r) ==
    {i \in LogIdx : log[i].cmd = cmd /\ log[i].cs = id /\ log[i].run = r}

\* the driver is about to issue the commit of the changeset in progress
CommitDue == (pc = "files" /\ files_to_process = <<>>) \/ pc = "commit"

\* the branch create/checkout of changeset id reported failure in execution r
BranchStepFailed(id, r) ==
    \E i \in Issued("checkout", id, r) \cup Issued("checkout-b", id, r) : ~log[i].ok

PerChangesetCmds ==
    {"progress", "rev-parse", "checkout", "checkout-b", "cm-cat", "write",
     "warning", "remove", "git-rm", "cm-switch", "git-add", "git-commit"}

\* C1: in both drivers, whatever the document order, everything done for a
\* changeset (progress line, branch commands, file operations, commit) comes
\* before everything done for a changeset with a larger id, and the progress
\* lines of one execution have strictly ascending ids.
C1_AscendingIdOrder ==
    \A i, j \in LogIdx :
        (/\ i < j
         /\ log[i].run = log[j].run
         /\ log[i].cmd \in PerChangesetCmds
         /\ log[j].cmd \in PerChangesetCmds)
        => /\ log[i].cs <= log[j].cs
           /\ (log[i].cmd = "progress" /\ log[j].cmd = "progress"
                  => log[i].cs < log[j].cs)

\* a two-changeset document in descending id order has been migrated to the end
C1_Witness ==
    /\ pc = "done"
    /\ Len(doc.elems) = 2
    /\ ParseInt(doc.elems[1].id) > ParseInt(doc.elems[2].id)
    /\ \A k \in 1..2 : Issued("git-commit", ParseInt(doc.elems[k].id), run) # {}

\* C2: whenever a commit is issued for a changeset, the branch checked out in
\* the destination is the mapped name of the changeset's branch and equals the
\* driver's current_branch, whatever the branch commands returned.
C2_CommitOnMappedBranch ==
    CommitDue => /\ head = BranchMap(Cur.branch)
                 /\ current_branch = head

\* C3: a changeset whose branch create/checkout failed gets no content
\* reconciliation and no commit.
C3_FailedBranchStepSkipsChangeset ==
    \A i \in LogIdx :
        (log[i].cmd \in {"checkout", "checkout-b"} /\ ~log[i].ok)
        => \A c \in {"cm-cat", "write", "remove", "git-rm", "git-add", "git-commit"} :
              Issued(c, log[i].cs, log[i].run) = {}

\* C4: the commit count of the final summary is the number of changesets of
\* this execution whose commit operation returned success.
C4_SummaryCountsSuccessfulCommits ==
    pc = "done" =>
        summary[1].commits =
            Cardinality({i \in LogIdx : /\ log[i].cmd = "git-commit"
                                        /\ log[i].run = run
                                        /\ log[i].ok})

\* "Update (changeset <id>)"
UpdateChangesetText(id) ==
    <<"U", "p", "d", "a", "t", "e", " ", "(", "c", "h", "a", "n", "g", "e",
      "s", "e", "t", " ">> \o Digits(id) \o <<")">>

\* the document element a parsed changeset was read from
ElemOf(c) == CHOOSE e \in {doc.elems[k] : k \in 1..Len(doc.elems)} : ParseInt(e.id) = c.id

\* C5: every changeset the loop has finished and whose branch step did not
\* fail (in migrate: whose workspace switch succeeded, so that its branch step
\* ran) has had exactly one commit command issued, also with an empty change
\* list; that commit is refused only for a missing date or by a spurious
\* failure (never for being empty); with an empty change list and an empty
\* comment its message is "Update (changeset <id>)".
C5_OneCommitPerChangeset ==
    \A k \in 1..Len(changesets) :
        (/\ k < idx
         /\ ~BranchStepFailed(changesets[k].id, run)
         /\ variant = "simple" =>
                \E i \in Issued("cm-switch", changesets[k].id, run) : log[i].ok)
        => LET c  == changesets[k]
               e  == ElemOf(c)
               cm == Issued("git-commit", c.id, run)
           IN  /\ Cardinality(cm) = 1
               /\ \A i \in cm :
                     /\ ~log[i].ok => (faults > 0 \/ e.date = <<>>)
                     /\ (e.items = <<>> /\ e.comment = <<>>)
                           => log[i].arg = UpdateChangesetText(c.id)

\* an empty commit: a changeset with no changes and no comment was committed
\* with the fallback message on top of a commit with the same tree
C5_Witness ==
    /\ variant = "full"
    /\ pc = "loop"
    /\ idx = 3
    /\ changesets[2].changes = <<>>
    /\ changesets[2].comment = <<>>
    /\ commits # <<>>
    /\ LET c == commits[Len(commits)]
       IN  /\ c.cs = changesets[2].id
           /\ c.message = UpdateChangesetText(c.cs)
           /\ c.parent # 0
           /\ c.tree = commits[c.parent].tree

\* log positions, in this execution, of file operation cmd by the changeset in
\* progress on the file fp
Touched(cmd, fp) ==
    {i \in LogIdx : /\ log[i].cmd = cmd
                    /\ log[i].run = run
                    /\ log[i].cs = Cur.id
                    /\ FullPath(log[i].arg) = fp}

\* C6: while and after apply_changeset_files runs, a file whose retrieval
\* failed and that no other operation of the changeset touched is as it was
\* before (not created, not overwritten); a file whose last operation is a
\* write holds the content retrieved for this changeset id; and a changeset
\* with a failed retrieval goes on to its commit attempt (it is never skipped
\* or aborted for it).
C6_FailedRetrievalIsolated ==
    /\ pc = "files" =>
          \A fp \in WorkspaceFiles :
              /\ (/\ Touched("warning", fp) # {}
                  /\ Touched("write", fp) = {}
                  /\ Touched("remove", fp) = {})
                 => Lookup(wd, fp) = Lookup(wd_before, fp)
              /\ \A i \in Touched("write", fp) :
                    (\A j \in Touched("remove", fp) \cup Touched("write", fp) : j <= i)
                    => Lookup(wd, fp) = <<Retrieved(log[i].arg, Cur.id)>>
    /\ \A i \in LogIdx :
          log[i].cmd = "warning"
          => \/ Issued("git-commit", log[i].cs, log[i].run) # {}
             \/ (pc = "files" /\ log[i].run = run /\ log[i].cs = Cur.id)

\* of two Added files the retrieval of /p failed and /q was written; the
\* changeset has had its commit attempt
C6_Witness ==
    /\ variant = "full"
    /\ run = 1
    /\ pc = "loop"
    /\ idx = 2
    /\ changesets[1].changes = <<Item("Added", <<>>, FileP), Item("Added", <<>>, FileQ)>>
    /\ \E i \in Issued("warning", 1, 1) : log[i].arg = FileP
    /\ Issued("git-commit", 1, 1) # {}
    /\ FullPath(FileP) \notin DOMAIN wd
    /\ Lookup(wd, FullPath(FileQ)) = <<Retrieved(FileQ, 1)>>

LastChange == Cur.changes[Len(Cur.changes)]

\* C7: when apply_changeset_files has just processed a Moved change from
\* srcPath to a different dstPath (the last change of the list), srcPath is
\* absent; if the retrieval of dstPath succeeded, dstPath holds the content
\* retrieved for it at this changeset id; and every removal of srcPath by this
\* changeset precedes the retrieval and write of dstPath for the move.
C7_MovedDeletesThenWrites ==
    (/\ pc = "files"
     /\ files_to_process = <<>>
     /\ Cur.changes # <<>>
     /\ LastChange.type = "Moved"
     /\ LastChange.src_path # LastChange.dst_path)
    => LET src == FullPath(LastChange.src_path)
           dst == FullPath(LastChange.dst_path)
           cat == {i \in Touched("cm-cat", dst) : \A j \in Touched("cm-cat", dst) : j <= i}
       IN  /\ src \notin DOMAIN wd
           /\ cat # {}
           /\ \A i \in cat :
                 /\ log[i].ok => Lookup(wd, dst) = <<Retrieved(LastChange.dst_path, Cur.id)>>
                 /\ \A j \in Touched("remove", src) : j < i
                 /\ (Len(Cur.changes) = 1 /\ src \in DOMAIN wd_before)
                       => Touched("remove", src) # {}

\* /p was added and then moved to /q: /p was removed, then /q written
C7_Witness ==
    /\ pc = "files"
    /\ files_to_process = <<>>
    /\ Cur.changes = <<Item("Added", <<>>, FileP), Item("Moved", FileP, FileQ)>>
    /\ FullPath(FileP) \notin DOMAIN wd
    /\ Lookup(wd, FullPath(FileQ)) = <<Retrieved(FileQ, Cur.id)>>
    /\ \E i \in Touched("remove", FullPath(FileP)) :
          \E j \in Touched("write", FullPath(FileQ)) : i < j

\* C8: when the second execution on the same destination has finished and no
\* commit (and no source-workspace switch) failed in either execution, every
\* changeset was committed again in the second execution and the destination
\* holds twice as many commits as the history has changesets.
C8_RerunDuplicatesCommits ==
    (/\ run = 2
     /\ pc = "done"
     /\ \A i \in LogIdx : log[i].cmd \in {"git-commit", "cm-switch"} => log[i].ok)
    => /\ Len(commits) = 2 * Len(doc.elems)
       /\ \A k \in 1..Len(doc.elems) :
             Issued("git-commit", ParseInt(doc.elems[k].id), 2) # {}

\* two changesets migrated twice: four commits, the third repeats the first
C8_Witness ==
    /\ run = 2
    /\ pc = "done"
    /\ Len(doc.elems) = 2
    /\ Len(commits) = 4
    /\ commits[3].cs = commits[1].cs
    /\ commits[3].message = commits[1].message
    /\ commits[3].run = 2
    /\ commits[1].run = 1

\* an element with every required field
Sound(e) ==
    e.has = AllTags /\ IsInt(e.id) /\ e.branch # <<>> /\ e.date # <<>>

\* an element that only has no Changes section
LacksOnlyChanges(e) == Sound([e EXCEPT !.has = AllTags]) /\ e.has = AllTags \ {"Changes"}

\* C9: a history in which a changeset has the required fields but no Changes
\* section is read without failure: the run is not aborted and the changeset is
\* in the list that was read.
C9_MissingChangesIsEmptyList ==
    (/\ doc.wellformed
     /\ \A k \in 1..Len(doc.elems) : Sound(doc.elems[k]) \/ LacksOnlyChanges(doc.elems[k])
     /\ \E k \in 1..Len(doc.elems) : LacksOnlyChanges(doc.elems[k])
     /\ pc # "start")
    => /\ pc # "aborted"
       /\ Len(changesets) = Len(doc.elems)

\* a changeset lacks its id, branch or timestamp
Lacks(e) ==
    \/ "ChangesetId" \notin e.has \/ ~IsInt(e.id)
    \/ "Branch" \notin e.has \/ e.branch = <<>>
    \/ "Date" \notin e.has \/ e.date = <<>>

Malformed(d) == ~d.wellformed \/ \E k \in 1..Len(d.elems) : Lacks(d.elems[k])

Mutations ==
    {"checkout", "checkout-b", "git-add", "git-rm", "git-commit", "write", "remove"}

\* C10: for a malformed history no destination operation (branch create or
\* checkout, stage, index removal, commit) and no working-directory write or
\* delete is ever performed.
C10_MalformedAbortsBeforeMutation ==
    Malformed(doc) => \A i \in LogIdx : log[i].cmd \notin Mutations

\* the <Changeset> element a log entry was issued for
ElemAt(i) == ElemOf([id |-> log[i].cs])

CommitEntries == {i \in LogIdx : log[i].cmd = "git-commit"}

\* C11: for every changeset whose comment is non-empty after trimming
\* whitespace, the commit message used is the recorded comment unchanged,
\* leading and trailing whitespace included, in both variants.
C11_CommentUsedVerbatim ==
    \A i \in CommitEntries :
        Strip(ElemAt(i).comment) # <<>> => log[i].arg = ElemAt(i).comment

\* the phrase of one change type in a synthesized message
Phrase(verb, n) ==
    IF n = 0 THEN <<>>
    ELSE verb \o <<" ">> \o Digits(n) \o <<" ", "f", "i", "l", "e", "(", "s", ")">>

RECURSIVE CommaSeparated(_)
CommaSeparated(phrases) ==
    IF phrases = <<>> THEN <<>>
    ELSE IF Len(phrases) = 1 THEN phrases[1]
    ELSE phrases[1] \o <<",", " ">> \o CommaSeparated(Tail(phrases))

TypeCount(items, t) == Cardinality({k \in DOMAIN items : items[k].type = t})

\* the message the specification prescribes for a multiset of change types
Listed(items) ==
    CommaSeparated(SelectSeq(
        <<Phrase(<<"A", "d", "d">>, TypeCount(items, "Added")),
          Phrase(<<"U", "p", "d", "a", "t", "e">>, TypeCount(items, "Changed")),
          Phrase(<<"D", "e", "l", "e", "t", "e">>, TypeCount(items, "Deleted")),
          Phrase(<<"M", "o", "v", "e">>, TypeCount(items, "Moved"))>>,
        LAMBDA ph : ph # <<>>))

Add3Delete1 ==
    <<"A", "d", "d", " ", "3", " ", "f", "i", "l", "e", "(", "s", ")", ",", " ",
      "D", "e", "l", "e", "t", "e", " ", "1", " ", "f", "i", "l", "e", "(", "s", ")">>

IsAdd3Delete1(items) ==
    /\ Len(items) = 4
    /\ TypeCount(items, "Added") = 3
    /\ TypeCount(items, "Deleted") = 1

\* C12: for every changeset with an empty or whitespace-only comment and every
\* change list over Added, Changed, Deleted, Moved, the message used is
\* non-empty and lists exactly the types present, each with its count, in the
\* order Added, Changed, Deleted, Moved joined by ", " ({Added:3, Deleted:1}
\* gives "Add 3 file(s), Delete 1 file(s)"); it is a function of the multiset of
\* types and the id only, whatever the order of the changes.
C12_SynthesizedMessage ==
    \A i \in CommitEntries :
        LET e == ElemAt(i)
        IN  Strip(e.comment) = <<>> =>
                /\ log[i].arg # <<>>
                /\ e.items # <<>> => log[i].arg = Listed(e.items)
                /\ e.items = <<>> => log[i].arg = UpdateChangesetText(log[i].cs)
                /\ IsAdd3Delete1(e.items) => log[i].arg = Add3Delete1

\* three additions and one deletion, the deletion listed first and the comment
\* a single blank, were committed as "Add 3 file(s), Delete 1 file(s)"; so was a
\* list with both a Changed and a Deleted entry, Deleted first
C12_Witness ==
    /\ \E i \in CommitEntries :
          /\ IsAdd3Delete1(ElemAt(i).items)
          /\ ElemAt(i).items[1].type = "Deleted"
          /\ ElemAt(i).comment = <<" ">>
          /\ log[i].arg = Add3Delete1
          /\ log[i].ok
    /\ variant = "simple"

\* a path without its first character if that is a separator
DropOne(path) ==
    IF path # <<>> /\ path[1] = "/" THEN SubSeq(path, 2, Len(path)) ELSE path

Dashed(path) == [k \in DOMAIN path |-> IF path[k] = "/" THEN "-" ELSE path[k]]

BranchChecks == {i \in LogIdx : log[i].cmd = "rev-parse"}

\* C13: the destination branch name is the source path with a single
\* leading separator stripped and every remaining separator replaced by "-";
\* mapping the name again returns it unchanged.
C13_SingleSeparatorStripped ==
    \A i \in BranchChecks :
        /\ log[i].arg = Dashed(DropOne(ElemAt(i).branch))
        /\ BranchMap(log[i].arg) = log[i].arg

WellFormedHistory ==
    doc.wellformed /\ \A k \in 1..Len(doc.elems) : Sound(doc.elems[k])

\* C14: for every well-formed history, a history with zero changesets
\* included, and whatever the outcomes of the external commands, the run goes
\* through reading and the per-changeset steps to the summary and ends
\* normally: it never ends by an abort, and when it has ended the summary has
\* been printed.
C14_RunEndsWithSummary ==
    WellFormedHistory =>
        /\ pc # "aborted"
        /\ pc = "done" => summary # <<>>

\* a step that carries the branch step of the current changeset
BranchStepTaken ==
    \/ variant = "full" /\ pc = "loop" /\ pc' = "apply"
    \/ variant = "simple" /\ pc = "branch" /\ pc' = "commit"

BranchCmds == {"rev-parse", "checkout-b", "checkout"}

\* the log entries a step appends
Appended == SubSeq(log', Len(log) + 1, Len(log'))

\* C15: when the mapped branch name of a changeset equals the driver's
\* current_branch, the branch step is a no-op: no existence check, creation or
\* checkout is issued, and current_branch, the tracked branch set and the
\* destination's refs and HEAD are unchanged.
C15_SameBranchStepIsNoOp ==
    [][(BranchStepTaken /\ BranchMap(Cur.branch) = current_branch)
          => /\ \A k \in 1..Len(Appended) : Appended[k].cmd \notin BranchCmds
             /\ UNCHANGED <<current_branch, git_branches, refs, head>>]_vars

\* the second changeset of a run is on the branch of the first: its branch
\* step is over and issued no branch command
C15_Witness ==
    /\ pc \in {"apply", "commit"}
    /\ idx = 2
    /\ BranchMap(Cur.branch) = BranchMap(changesets[1].branch)
    /\ current_branch = BranchMap(Cur.branch)
    /\ Issued("rev-parse", changesets[1].id, run) # {}
    /\ \A c \in BranchCmds : Issued(c, Cur.id, run) = {}

\* the existence check that precedes entry k of the appended entries reported
\* `found` for the same name
CheckedBefore(k, found) ==
    /\ k > 1
    /\ Appended[k - 1].cmd = "rev-parse"
    /\ Appended[k - 1].arg = Appended[k].arg
    /\ Appended[k - 1].ok = found

\* C16: when the branch step runs for a mapped name, the branch is created only
\* if the existence check reports that it does not exist, and switched to if
\* the check reports that it exists; an existing branch is never re-created; a
\* newly created branch starts from the checked-out state: it points at the
\* head commit of the branch that was active just before, and the working
\* directory and the index are as they were.
C16_CreateOnlyIfAbsent ==
    [][\A k \in 1..Len(Appended) :
          LET e == Appended[k]
          IN  /\ e.cmd = "checkout-b" =>
                    /\ CheckedBefore(k, FALSE)
                    /\ e.arg \in DOMAIN refs => ~e.ok /\ refs' = refs
                    /\ e.ok =>
                          /\ head' = e.arg
                          /\ head \in DOMAIN refs =>
                                e.arg \in DOMAIN refs' /\ refs'[e.arg] = refs[head]
                          /\ head \notin DOMAIN refs => refs' = refs
                          /\ wd' = wd /\ index' = index
              /\ e.cmd = "checkout" =>
                    /\ CheckedBefore(k, TRUE)
                    /\ e.ok => e.arg \in DOMAIN refs /\ head' = e.arg /\ refs' = refs
      ]_vars

\* the branch of the second changeset has just been created: it points at the
\* commit of the first changeset, made on the branch that was active before
C16_Witness ==
    /\ Len(log) >= 2
    /\ log[Len(log)].cmd = "checkout-b"
    /\ log[Len(log)].ok
    /\ log[Len(log) - 1].cmd = "rev-parse"
    /\ ~log[Len(log) - 1].ok
    /\ head = log[Len(log)].arg
    /\ head \in DOMAIN refs
    /\ commits[refs[head]].branch # head
    /\ refs[commits[refs[head]].branch] = refs[head]

\* the names the branch step of this run has been performed for
BranchStepNames == {log[i].arg : i \in {j \in BranchChecks : log[j].run = run}}

\* the destination branches this run created
CreatedBranches ==
    {log[i].arg : i \in {j \in LogIdx : /\ log[j].cmd = "checkout-b"
                                        /\ log[j].run = run
                                        /\ log[j].ok}}

TrackingSetExact ==
    /\ pc = "start" => git_branches = {}
    /\ current_branch # NoBranch => current_branch \in git_branches
    /\ git_branches = BranchStepNames
    /\ (pc = "done" /\ variant = "full") =>
          summary[1].branches = Cardinality(CreatedBranches)

\* C17: the tracked branch set is empty at run start, never loses an element
\* during the run, contains current_branch whenever that is set, and at every
\* point is the set of mapped names of the changesets whose branch step has
\* been performed; the number reported as "branches created" in the summary is
\* the number of destination branches the run created.
C17_TrackedBranchesAreCreated ==
    [][/\ run' = run => git_branches \subseteq git_branches'
       /\ TrackingSetExact']_vars

\* the exit codes of the retrievals of changeset id in run r, in the order issued
CatFlags(id, r) ==
    LET S == Issued("cm-cat", id, r)
        nth(k) == CHOOSE i \in S : Cardinality({j \in S : j <= i}) = k
    IN  [k \in 1..Cardinality(S) |-> log[nth(k)].ok]

\* the tree after one change: a deletion removes the path, a write stores the
\* retrieved revision unless the retrieval failed
Deleted(tree, path) == [q \in DOMAIN tree \ {FullPath(path)} |-> tree[q]]

Stored(tree, path, id, ok) ==
    IF ok
    THEN [q \in DOMAIN tree \cup {FullPath(path)} |->
             IF q = FullPath(path) THEN Retrieved(path, id) ELSE tree[q]]
    ELSE tree

RECURSIVE OneAfterAnother(_, _, _, _)
\* the tree after applying the changes one after another in list order
OneAfterAnother(changes, id, tree, flags) ==
    IF changes = <<>> THEN tree
    ELSE LET c == Head(changes)
         IN  IF c.type = "Deleted"
             THEN OneAfterAnother(Tail(changes), id, Deleted(tree, c.dst_path), flags)
             ELSE IF c.type = "Moved"
             THEN OneAfterAnother(Tail(changes), id,
                      Stored(Deleted(tree, c.src_path), c.dst_path, id, Head(flags)),
                      Tail(flags))
             ELSE OneAfterAnother(Tail(changes), id,
                      Stored(tree, c.dst_path, id, Head(flags)), Tail(flags))

ApplyDone == variant = "full" /\ pc = "files" /\ files_to_process = <<>>

\* the change list is a change of type t1 then one of type t2 on the same path
Pair(changes, t1, t2) ==
    /\ Len(changes) = 2
    /\ changes[1].type = t1
    /\ changes[2].type = t2
    /\ changes[1].dst_path = changes[2].dst_path

\* C18: within one changeset the file changes are applied in the order of the
\* change list, a Moved change expanded in place into delete-then-write: when
\* all changes are applied the working directory is the result of applying
\* them one after another in list order (a write whose retrieval failed
\* changing nothing); Added p then Deleted p leaves p absent, and Deleted p
\* then Added p, retrieved successfully, leaves p present.
C18_AppliedInListOrder ==
    ApplyDone =>
        LET flags == CatFlags(Cur.id, run)
        IN  /\ wd = OneAfterAnother(Cur.changes, Cur.id, wd_before, flags)
            /\ Pair(Cur.changes, "Added", "Deleted")
                  => FullPath(Cur.changes[1].dst_path) \notin DOMAIN wd
            /\ (Pair(Cur.changes, "Deleted", "Added") /\ flags = <<TRUE>>)
                  => FullPath(Cur.changes[1].dst_path) \in DOMAIN wd

\* Added /p then Deleted /p: /p was retrieved and written, then removed, and
\* is absent when the changeset's changes are all applied
C18_Witness ==
    /\ ApplyDone
    /\ Pair(Cur.changes, "Added", "Deleted")
    /\ \E i \in Issued("write", Cur.id, run) :
          \E j \in Issued("remove", Cur.id, run) : i < j
    /\ FullPath(Cur.changes[1].dst_path) \notin DOMAIN wd

FailedSwitches == {i \in LogIdx : log[i].cmd = "cm-switch" /\ ~log[i].ok}

\* no destination command was issued for a changeset whose switch failed
SkippedUntouched ==
    \A i \in FailedSwitches :
        \A c \in BranchCmds \cup {"git-add", "git-commit"} :
            Issued(c, log[i].cs, log[i].run) = {}

\* C19: in the simple variant, when the source-workspace switch for a
\* changeset fails, the changeset is skipped: no branch check, creation or
\* checkout, no staging and no commit is issued for it, current_branch, the
\* tracked branch set, success_count and the destination repository are
\* unchanged, and the loop goes on to the next changeset.
C19_FailedSwitchSkipsChangeset ==
    [][/\ (/\ Appended # <<>>
           /\ Appended[Len(Appended)].cmd = "cm-switch"
           /\ ~Appended[Len(Appended)].ok)
          => /\ pc' = "loop"
             /\ idx' = idx + 1
             /\ UNCHANGED <<current_branch, git_branches, success_count, gitVars>>
       /\ SkippedUntouched']_vars

\* the switch to the first changeset failed; the second was switched to and
\* committed, and is the only one counted
C19_Witness ==
    /\ variant = "simple"
    /\ Len(changesets) = 2
    /\ idx = 3
    /\ \E i \in FailedSwitches : log[i].cs = changesets[1].id /\ log[i].run = run
    /\ \E i \in Issued("git-commit", changesets[2].id, run) : log[i].ok
    /\ success_count = 1

\* the tree a commit was made on top of
BaseTree(c) == IF c.parent = 0 THEN EmptyTree ELSE commits[c.parent].tree

\* the paths on which a commit differs from its parent
ChangedPaths(c) ==
    {p \in DOMAIN c.tree \cup DOMAIN BaseTree(c) :
        Lookup(c.tree, p) # Lookup(BaseTree(c), p)}

\* the paths written or removed for changeset id in run r
AppliedPaths(id, r) ==
    {FullPath(log[i].arg) : i \in Issued("write", id, r) \cup Issued("remove", id, r)}

\* C20 as stated: every successful commit created for a changeset c records
\* only the working-directory changes applied for c on top of the previous
\* commit of its branch; changes applied for an earlier changeset whose commit
\* failed are never carried over into the commit of a later changeset.
C20_CommitRecordsOwnChangesOnly ==
    variant = "full" =>
        \A n \in 1..Len(commits) :
            ChangedPaths(commits[n]) \subseteq AppliedPaths(commits[n].cs, commits[n].run)

\* the exit code of the `git add -A` among the appended entries
StageAllOk == \E k \in 1..Len(Appended) : Appended[k].cmd = "git-add" /\ Appended[k].ok

\* C20: every successful commit created for a changeset c records the whole
\* working directory as staged by the unconditional stage-all (the index as it
\* was, if the stage-all failed) on top of the previous commit of the
\* checked-out branch; changes applied for an earlier changeset whose commit
\* failed are still in the working directory and are carried over into the
\* next successful commit.
C20_CommitRecordsWorkingDirectory ==
    [][Len(commits') > Len(commits)
          => LET c == commits'[Len(commits')]
             IN  /\ Len(commits') = Len(commits) + 1
                 /\ c.tree = IF StageAllOk THEN wd ELSE index
                 /\ c.parent = IF head \in DOMAIN refs THEN refs[head] ELSE 0
                 /\ refs'[head] = Len(commits')
                 /\ \A p \in DOMAIN wd :
                       StageAllOk => Lookup(c.tree, p) = Lookup(wd, p)
      ]_vars

\* the commit of the first changeset failed after its file was written; the
\* commit of the second changeset, which did not touch that file, records it
C20_Witness ==
    /\ variant = "full"
    /\ Len(changesets) = 2
    /\ \E i \in Issued("git-commit", changesets[1].id, run) : ~log[i].ok
    /\ \E n \in 1..Len(commits) :
          /\ commits[n].cs = changesets[2].id
          /\ commits[n].run = run
          /\ \E p \in ChangedPaths(commits[n]) :
                /\ p \in AppliedPaths(changesets[1].id, run)
                /\ p \notin AppliedPaths(changesets[2].id, run)

====
